---- MODULE Spec2Model ----
(***************************************************************************)
(* Model of bot.py, the Telegram "document footer" bot.                    *)
(*                                                                         *)
(* Strings are sequences of atoms ("r", ".", "docx", " ", ...): an atom is *)
(* a run of characters that no string operation of the program splits.     *)
(* Handlers are coroutines; the application is built with                  *)
(* concurrent_updates(True), so several handlers may be in flight and      *)
(* every await of network or subprocess I/O is a point where another       *)
(* handler may run.  One action of the model is the code between two such  *)
(* awaits.                                                                 *)
(***************************************************************************)
EXTENDS Integers, Sequences, FiniteSets, Bags, TLC

VARIABLES
    conversations,  \* ConversationHandler's state per user (key of the conversation)
    user_data,      \* the module-level dict user_data: user id -> dict
    disk,           \* the files of the working directory (set of paths)
    tasks,          \* the handler coroutines in flight (a bag of their locals)
    sendIn,         \* send_message_with_retry on its own: the transport's outcomes
    sendOut,        \* ... and what the call did with them
    docIn,          \* process_docx on its own: the footers of the loaded document
    docOut,         \* ... and the footers of the saved document
    down,           \* the shutdown: where cleanup() is and what was done so far
    errIn,          \* error_handler on its own: context.error and the update
    errOut          \* ... and what the call did

vars == <<conversations, user_data, disk, tasks, sendIn, sendOut, docIn, docOut, down, errIn, errOut>>

botVars == <<conversations, user_data, disk, tasks>>

fnVars == <<sendIn, sendOut, docIn, docOut, down, errIn, errOut>>

----------------------------------------------------------------------------
(* Bounds and program constants *)

MaxInFlight == 2

MaxOutcomes == 4

MaxFooterItems == 2

MaxSections == 2

MAX_RETRIES == 3

RETRY_DELAY == 1

SUPPORTED_EXTENSIONS == {<<".", "docx">>}

Users == {1}

----------------------------------------------------------------------------
(* Strings *)

\* str.lower() on one atom
LowerAtom(c) ==
    CASE c = "DOCX" -> "docx"
      [] c = "TXT"  -> "txt"
      [] c = "A"    -> "a"
      [] OTHER      -> c

\* str.lower()
lower(s) == [i \in 1..Len(s) |-> LowerAtom(s[i])]

\* str.strip(): leading and trailing whitespace removed
RECURSIVE lstrip(_)
lstrip(s) == IF s # <<>> /\ Head(s) = " " THEN lstrip(Tail(s)) ELSE s

RECURSIVE rstrip(_)
rstrip(s) ==
    IF s # <<>> /\ s[Len(s)] = " " THEN rstrip(SubSeq(s, 1, Len(s) - 1)) ELSE s

strip(s) == rstrip(lstrip(s))

\* os.path.splitext: the extension starts at the last dot, unless only dots
\* precede it
LastDot(s) ==
    LET dots == {i \in 1..Len(s) : s[i] = "."}
    IN  IF dots = {} THEN 0 ELSE CHOOSE i \in dots : \A j \in dots : j <= i

splitext(s) ==
    LET d == LastDot(s)
    IN  IF d = 0 \/ (\A j \in 1..(d - 1) : s[j] = ".")
        THEN <<s, <<>>>>
        ELSE <<SubSeq(s, 1, d - 1), SubSeq(s, d, Len(s))>>

\* whether old occurs in s at position 1
StartsWith(s, old) == Len(s) >= Len(old) /\ SubSeq(s, 1, Len(old)) = old

\* str.replace(old, new): every occurrence, left to right
RECURSIVE replace(_, _, _)
replace(s, old, new) ==
    IF s = <<>> THEN <<>>
    ELSE IF StartsWith(s, old)
         THEN new \o replace(SubSeq(s, Len(old) + 1, Len(s)), old, new)
         ELSE <<Head(s)>> \o replace(Tail(s), old, new)

\* f"{a}_{b}"
Underscore(a, b) == a \o <<"_">> \o b

----------------------------------------------------------------------------
(* RetryingMessenger: send_message_with_retry *)

\* What one call of update.message.reply_text can do.
Outcomes ==
    [kind : {"ok", "TimedOut", "NetworkError", "Other"}, retry_after : {0}]
        \cup [kind : {"RetryAfter"}, retry_after : {2, 5}]

\* The transport's answers to the successive attempts of one call.
OutcomeSeqs == [1..MaxOutcomes -> Outcomes]

Attempt(n) == [ev |-> "attempt", arg |-> n]

Sleep(secs) == [ev |-> "sleep", arg |-> secs]

\* IsLastAttempt with the comparison off by one: no attempt is ever the last.
IsLastAttemptOffByOne(attempt, max_retries) == ~(attempt < max_retries)

\* except (TimedOut, NetworkError): sleep and go on unless this was the last attempt
IsLastAttempt(attempt, max_retries) == ~(attempt < max_retries - 1)

\* except RetryAfter as e: await asyncio.sleep(e.retry_after)
RetryAfterSleep(e) == e.retry_after

\* What a call hands to its caller: the value it returns, or an exception that
\* leaves it (raised), and what it did before.
Returned(ret, log) == [ret |-> ret, raised |-> FALSE, log |-> log]

\* ExceptException without its handler: the exception leaves the call.
ExceptExceptionReraises(log) == [ret |-> FALSE, raised |-> TRUE, log |-> log]

\* except Exception as e: logger.error(...); return False
ExceptException(log) == Returned(FALSE, log)

\* The for loop from iteration `attempt` on; log is what happened so far.
RECURSIVE SendLoop(_, _, _, _)
SendLoop(outcomes, attempt, max_retries, log) ==
    IF attempt >= max_retries \/ attempt >= Len(outcomes)
    THEN Returned(FALSE, log)
    ELSE LET e    == outcomes[attempt + 1]
             log1 == Append(log, Attempt(attempt))
         IN  CASE e.kind = "ok" -> Returned(TRUE, log1)
               [] e.kind \in {"TimedOut", "NetworkError"} ->
                    IF IsLastAttempt(attempt, max_retries)
                    THEN Returned(FALSE, log1)
                    ELSE SendLoop(outcomes, attempt + 1, max_retries,
                                  Append(log1, Sleep(RETRY_DELAY)))
               [] e.kind = "RetryAfter" ->
                    SendLoop(outcomes, attempt + 1, max_retries,
                             Append(log1, Sleep(RetryAfterSleep(e))))
               [] OTHER -> ExceptException(log1)

send_message_with_retry(outcomes, max_retries) ==
    SendLoop(outcomes, 0, max_retries, <<>>)

NoCall == Returned(FALSE, <<>>)

----------------------------------------------------------------------------
(* Footer injection: process_docx on the document's sections *)

Run(text, fld) == [text |-> text, fld |-> fld]

\* A block item of a footer: a paragraph (one cell) or a table (a row of cells);
\* a cell is the sequence of runs of its first paragraph.
Paragraph(runs) == [kind |-> "p", cells |-> <<runs>>]

Table(cells) == [kind |-> "tbl", cells |-> cells]

OldParagraph == Paragraph(<<Run(<<"old">>, "")>>)

OldTable == Table(<<<<Run(<<"old">>, "")>>>>)

\* for paragraph in footer.paragraphs: p.getparent().remove(p)
RECURSIVE ClearParagraphs(_)
ClearParagraphs(footer) ==
    IF footer = <<>> THEN <<>>
    ELSE IF Head(footer).kind = "p"
         THEN ClearParagraphs(Tail(footer))
         ELSE <<Head(footer)>> \o ClearParagraphs(Tail(footer))

\* the 1 x 3 table the loop body fills in
FooterTable(name, roll_no) ==
    Table(<< <<Run(<<"Name: ">> \o name, "")>>,
             <<Run(<<"Roll No: ">> \o roll_no, "")>>,
             <<Run(<<"Page no:">>, ""), Run(<<>>, "PAGE")>> >>)

\* footer.add_table appends the table to the footer's content
InjectFooter(footer, name, roll_no) ==
    Append(ClearParagraphs(footer), FooterTable(name, roll_no))

\* for section in doc.sections: ...
InjectAll(sections, name, roll_no) ==
    [i \in 1..Len(sections) |-> InjectFooter(sections[i], name, roll_no)]

FooterItems == {OldParagraph, OldTable}

RECURSIVE SeqsUpTo(_, _)
SeqsUpTo(S, n) ==
    IF n = 0 THEN {<<>>}
    ELSE LET shorter == SeqsUpTo(S, n - 1)
         IN  shorter \cup {Append(q, x) : q \in shorter, x \in S}

Footers == SeqsUpTo(FooterItems, MaxFooterItems)

Documents == SeqsUpTo(Footers, MaxSections) \ {<<>>}

NoDoc == [sections |-> <<>>, name |-> <<>>, roll_no |-> <<>>]

----------------------------------------------------------------------------
(* The bot: inputs, dicts, files, messages *)

\* Documents a user may send (document.file_name).
FileNames == {<<"r", ".", "docx">>, <<"r", ".", "DOCX">>, <<"r", ".", "txt">>}

\* Texts a user may send when asked for the name, and for the roll number.
NameTexts == {<<" ">>, <<" ", "A", " ">>, <<"A", ".", "docx">>}

RollTexts == {<<" ">>, <<"7">>}

Texts == NameTexts \cup RollTexts

\* user.username, empty for a user who has set none
username(u) == IF u = 1 THEN <<"bob">> ELSE <<>>

\* user.username if user.username else str(user.id)
UserIdentifier(u) == IF username(u) # <<>> THEN username(u) ELSE <<ToString(u)>>

\* Python dicts as functions
EmptyDict == [k \in {} |-> 0]

Put(d, k, v) == [x \in DOMAIN d \cup {k} |-> IF x = k THEN v ELSE d[x]]

Del(d, k) == [x \in DOMAIN d \ {k} |-> d[x]]

\* if os.path.exists(path): os.remove(path)
RemoveIfExists(files, path) == files \ {path}

\* The texts handed to send_message_with_retry.
MsgWelcome == <<"Welcome to the Document Footer Bot!">>

MsgUnsupported == <<"Unsupported file type. Please send a DOCX file.">>

MsgAskName == <<"Please send your name:">>

MsgBadName == <<"Please provide a valid name:">>

MsgAskRoll == <<"Please send your roll number:">>

MsgBadRoll == <<"Please provide a valid roll number:">>

MsgProcessing == <<"Processing your document. Please wait...">>

MsgSuccess == <<"Document processed successfully!">>

MsgFailure == <<"An error occurred while processing your document. Please try again.">>

MsgCancelled == <<"Operation cancelled. Send /start to begin again.">>

\* str(e) of the exceptions the handlers catch
KeyError == <<"KeyError">>

LoadError == <<"PackageNotFoundError">>

InjectError == <<"footer error">>

SaveError == <<"OSError">>

NoPdfError == <<"FileNotFoundError">>

DeliveryError == <<"TimedOut">>

DownloadError == <<"download failed">>

\* raise Exception(f"Conversion failed: {stderr.decode()}")
ConversionError == <<"Conversion failed: ", "stderr">>

----------------------------------------------------------------------------
(* Handler coroutines in flight *)

\* The locals of a coroutine, and what it has done so far: the pipeline steps it
\* ran, the texts it handed to send_message_with_retry, the file it delivered,
\* the exception it caught.
NewTask(u, handler, pc) ==
    [user |-> u, handler |-> handler, pc |-> pc, text |-> <<>>, name |-> <<>>,
     file_name |-> <<>>, file_path |-> <<>>, docx_output_path |-> <<>>,
     pdf_output_path |-> <<>>, steps |-> <<>>, msgs |-> <<>>, sent |-> <<>>,
     exc |-> <<>>]

\* Application.create_task: concurrent_updates(True) lets an update start its
\* handler while others are in flight (at most MaxInFlight here).
CanStart == BagCardinality(tasks) < MaxInFlight

Started(t) == tasks (+) SetToBag({t})

Running == BagToSet(tasks)

Removed(t) == tasks (-) SetToBag({t})

\* the coroutine with locals t goes on, its locals now t2
Resumed(t, t2) == Removed(t) (+) SetToBag({t2})

\* ConversationHandler._update_state: END closes the conversation, None leaves
\* the state as it is, any other value becomes the state.
UpdateState(state, ret) ==
    CASE ret = "END" -> "END"
      [] ret = "None" -> state
      [] OTHER -> ret

\* Route with both states of the conversation given the handler of the first.
RouteBothToName(state, kind) ==
    CASE state \in {"Idle", "END"} /\ kind = "start" -> "start"
      [] state \in {"Idle", "END"} /\ kind = "document" -> "handle_document"
      [] state \in {"WAITING_FOR_NAME", "WAITING_FOR_ROLLNO"} /\ kind = "text" -> "handle_name"
      [] state \in {"WAITING_FOR_NAME", "WAITING_FOR_ROLLNO"} /\ kind = "cancel" -> "cancel"
      [] OTHER -> "none"

\* ConversationHandler(entry_points, states, fallbacks): the handler an update
\* of the given kind goes to in the given conversation state
Route(state, kind) ==
    CASE state \in {"Idle", "END"} /\ kind = "start" -> "start"
      [] state \in {"Idle", "END"} /\ kind = "document" -> "handle_document"
      [] state = "WAITING_FOR_NAME" /\ kind = "text" -> "handle_name"
      [] state = "WAITING_FOR_ROLLNO" /\ kind = "text" -> "handle_rollno"
      [] state \in {"WAITING_FOR_NAME", "WAITING_FOR_ROLLNO"} /\ kind = "cancel" -> "cancel"
      [] OTHER -> "none"

\* An update no handler takes: nothing of the program's state changes.
Unrouted(u, kind) == UNCHANGED <<conversations, user_data, disk, tasks>>

\* A coroutine that ends: the conversation state follows its return value.
Complete(t, ret) ==
    /\ tasks' = Removed(t)
    /\ conversations' = [conversations EXCEPT ![t.user] =
                             UpdateState(conversations[t.user], ret)]

----------------------------------------------------------------------------
(* start *)

\* start only sends the welcome text and returns None; it reads and writes
\* nothing of user_data or the disk, so it is taken in one step.
StartUpdate(u) ==
    /\ IF Route(conversations[u], "start") = "start"
       THEN UNCHANGED <<conversations, user_data, disk, tasks>>
       ELSE Unrouted(u, "start")
    /\ UNCHANGED fnVars

----------------------------------------------------------------------------
(* handle_document *)

\* file_ext = os.path.splitext(file_name)[1].lower()
FileExt(file_name) == lower(splitext(file_name)[2])

\* Supported with the membership test dropped: any extension passes.
SupportedAnyExtension(file_ext) == file_ext # <<>>

\* the negation of: if file_ext not in SUPPORTED_EXTENSIONS
Supported(file_ext) == file_ext \in SUPPORTED_EXTENSIONS

\* file_path = f"{user_identifier}_{file_name}"
SourcePath(u, file_name) == Underscore(UserIdentifier(u), file_name)

\* user_data[user_id] = {...}
NewSession(u, file_name) ==
    [file_path |-> SourcePath(u, file_name), file_ext |-> FileExt(file_name),
     file_name |-> file_name, user_identifier |-> UserIdentifier(u)]

\* A document arrives: up to the first await (the rejection message, or get_file).
DocumentUpdate(u, file_name) ==
    /\ IF Route(conversations[u], "document") = "handle_document"
       THEN /\ CanStart
            /\ tasks' = Started(
                   IF ~Supported(FileExt(file_name))
                   THEN [NewTask(u, "handle_document", "send_unsupported")
                           EXCEPT !.file_name = file_name, !.msgs = <<MsgUnsupported>>]
                   ELSE [NewTask(u, "handle_document", "download")
                           EXCEPT !.file_name = file_name,
                                  !.file_path = SourcePath(u, file_name)])
            /\ UNCHANGED <<conversations, user_data, disk>>
       ELSE Unrouted(u, "document")
    /\ UNCHANGED fnVars

\* get_file and download_to_drive end (taken together: nothing of the program's
\* state is read or written between the two awaits).  On success the file is on
\* disk and the session is stored; an exception goes to the except clause.
DocumentDownloaded(t, ok) ==
    /\ t.pc = "download"
    /\ IF ok
       THEN /\ disk' = disk \cup {t.file_path}
            /\ user_data' = Put(user_data, t.user, NewSession(t.user, t.file_name))
            /\ tasks' = Resumed(t,
                   [t EXCEPT !.pc = "send_ask_name", !.msgs = <<MsgAskName>>])
       ELSE /\ tasks' = Resumed(t,
                   [t EXCEPT !.pc = "send_error", !.exc = DownloadError,
                             !.msgs = <<MsgFailure>>])
            /\ UNCHANGED <<disk, user_data>>
    /\ UNCHANGED conversations
    /\ UNCHANGED fnVars

\* The last message of handle_document is out and the handler returns.
DocumentReturn(t) ==
    /\ t.handler = "handle_document"
    /\ t.pc \in {"send_unsupported", "send_ask_name", "send_error"}
    /\ Complete(t, IF t.pc = "send_ask_name" THEN "WAITING_FOR_NAME" ELSE "END")
    /\ UNCHANGED <<user_data, disk>>
    /\ UNCHANGED fnVars

----------------------------------------------------------------------------
(* handle_name *)

\* user_data[user_id]['name'] = name
StoreName(d, u, name) == Put(d, u, Put(d[u], "name", name))

\* A text arrives in WAITING_FOR_NAME: up to the first await.  The store has no
\* try around it: a missing session is a KeyError that leaves the handler.
HandleName(u, text) ==
    LET name == strip(text)
        t    == [NewTask(u, "handle_name", "idle") EXCEPT !.text = name]
    IN  IF name = <<>>
        THEN /\ CanStart
             /\ tasks' = Started([t EXCEPT !.pc = "send_bad_name", !.msgs = <<MsgBadName>>])
             /\ UNCHANGED <<conversations, user_data, disk>>
        ELSE IF u \notin DOMAIN user_data
        THEN UNCHANGED <<conversations, user_data, disk, tasks>>
        ELSE /\ CanStart
             /\ user_data' = StoreName(user_data, u, name)
             /\ tasks' = Started([t EXCEPT !.pc = "send_ask_roll", !.msgs = <<MsgAskRoll>>])
             /\ UNCHANGED <<conversations, disk>>

NameReturn(t) ==
    /\ t.handler = "handle_name"
    /\ t.pc \in {"send_bad_name", "send_ask_roll"}
    /\ Complete(t, IF t.pc = "send_ask_roll" THEN "WAITING_FOR_ROLLNO"
                                              ELSE "WAITING_FOR_NAME")
    /\ UNCHANGED <<user_data, disk>>
    /\ UNCHANGED fnVars

----------------------------------------------------------------------------
(* handle_rollno, process_docx's files, convert_docx_to_pdf *)

\* output_path = f"{name}_{roll_no}.docx"
DocxOutputPath(name, roll_no) == Underscore(name, roll_no) \o <<".", "docx">>

\* pdf_path = docx_path.replace('.docx', '.pdf')
PdfPath(docx_path) == replace(docx_path, <<".", "docx">>, <<".", "pdf">>)

\* soffice --convert-to pdf --outdir <dir> <docx_path> writes the input's name
\* with its extension changed to .pdf
ConverterOutput(docx_path) == splitext(docx_path)[1] \o <<".", "pdf">>

\* filename=os.path.basename(pdf_output_path); the paths have no directory part
basename(path) == path

\* Except with the exception's text put into the message sent to the user.
ExceptWithDiagnostic(t, exc) ==
    [t EXCEPT !.pc = "send_failure", !.exc = exc,
              !.msgs = Append(t.msgs, MsgFailure \o exc)]

\* except Exception as e: the failure message is the first thing it sends
Except(t, exc) ==
    [t EXCEPT !.pc = "send_failure", !.exc = exc, !.msgs = Append(t.msgs, MsgFailure)]

\* A text arrives in WAITING_FOR_ROLLNO: up to the first await.
HandleRollno(u, text) ==
    LET roll_no == strip(text)
        t       == [NewTask(u, "handle_rollno", "idle") EXCEPT !.text = roll_no]
    IN  /\ CanStart
        /\ tasks' = Started(
               IF roll_no = <<>>
               THEN [t EXCEPT !.pc = "send_bad_roll", !.msgs = <<MsgBadRoll>>]
               ELSE [t EXCEPT !.pc = "send_processing", !.msgs = <<MsgProcessing>>])
        /\ UNCHANGED <<conversations, user_data, disk>>

\* The files and the outcome of process_docx(file_path, name, roll_no, ...), with
\* `fault` the step the environment makes fail ("none": no step).
ProcessDocx(t, files, file_path, name, fault) ==
    LET out == DocxOutputPath(name, t.text)
        t1  == [t EXCEPT !.file_path = file_path, !.name = name]
    IN  IF file_path \notin files \/ fault = "load"
        THEN [task |-> Except([t1 EXCEPT !.steps = <<"load">>], LoadError), disk |-> files]
        ELSE IF fault = "inject"
        THEN [task |-> Except([t1 EXCEPT !.steps = <<"load", "inject">>], InjectError),
              disk |-> files]
        ELSE IF fault = "save"
        THEN [task |-> Except([t1 EXCEPT !.steps = <<"load", "inject", "save">>], SaveError),
              disk |-> files]
        ELSE [task |-> [t1 EXCEPT !.steps = <<"load", "inject", "save", "convert">>,
                                  !.docx_output_path = out, !.pc = "converting"],
              disk |-> files \cup {out}]

\* The "Processing" message is out: the session is looked up, process_docx runs
\* (it awaits nothing) and convert_docx_to_pdf starts the converter.
RollnoProcess(t, fault) ==
    LET u == t.user
    IN  /\ t.pc = "send_processing"
        /\ IF u \notin DOMAIN user_data \/ "name" \notin DOMAIN user_data[u]
           THEN /\ tasks' = Resumed(t, Except(t, KeyError))
                /\ disk' = disk
           ELSE LET r == ProcessDocx(t, disk, user_data[u].file_path,
                                     user_data[u].name, fault)
                IN  /\ tasks' = Resumed(t, r.task)
                    /\ disk' = r.disk
        /\ UNCHANGED <<conversations, user_data>>
        /\ UNCHANGED fnVars

\* The converter ends.  A non-zero exit status raises; otherwise
\* open(pdf_output_path, 'rb') is evaluated and reply_document is awaited.
ConvertDone(t, returncode) ==
    LET written == IF returncode = 0 /\ t.docx_output_path \in disk
                   THEN {ConverterOutput(t.docx_output_path)} ELSE {}
        pdf     == PdfPath(t.docx_output_path)
    IN  /\ t.pc = "converting"
        /\ disk' = disk \cup written
        /\ tasks' = Resumed(t,
               IF returncode # 0 THEN Except(t, ConversionError)
               ELSE IF pdf \notin disk'
               THEN Except([t EXCEPT !.pdf_output_path = pdf], NoPdfError)
               ELSE [t EXCEPT !.pdf_output_path = pdf, !.pc = "delivering",
                              !.steps = Append(t.steps, "deliver")])
        /\ UNCHANGED <<conversations, user_data>>
        /\ UNCHANGED fnVars

\* # Clean up: the three removals of the success path
CleanUp(files, t) ==
    RemoveIfExists(RemoveIfExists(RemoveIfExists(files, t.file_path),
                                  t.docx_output_path), t.pdf_output_path)

\* reply_document ends.  On success the three files are removed and the session
\* deleted (a KeyError if it is gone); a transport error goes to the except clause.
DeliverDone(t, ok) ==
    LET t1 == [t EXCEPT !.sent = basename(t.pdf_output_path),
                         !.steps = Append(t.steps, "cleanup")]
    IN  /\ t.pc = "delivering"
        /\ IF ~ok
           THEN /\ tasks' = Resumed(t, Except(t, DeliveryError))
                /\ UNCHANGED <<disk, user_data>>
           ELSE /\ disk' = CleanUp(disk, t)
                /\ IF t.user \in DOMAIN user_data
                   THEN /\ user_data' = Del(user_data, t.user)
                        /\ tasks' = Resumed(t,
                               [t1 EXCEPT !.pc = "send_success",
                                          !.msgs = Append(t.msgs, MsgSuccess)])
                   ELSE /\ user_data' = user_data
                        /\ tasks' = Resumed(t, Except(t1, KeyError))
        /\ UNCHANGED conversations
        /\ UNCHANGED fnVars

\* The re-prompt or the success message is out and handle_rollno returns.
RollnoReturn(t) ==
    /\ t.handler = "handle_rollno"
    /\ t.pc \in {"send_bad_roll", "send_success"}
    /\ Complete(t, IF t.pc = "send_success" THEN "END" ELSE "WAITING_FOR_ROLLNO")
    /\ UNCHANGED <<user_data, disk>>
    /\ UNCHANGED fnVars

\* # Clean up of the except clause, and of cancel: only the stored session's
\* source file
SessionCleanUp(files, d, u) ==
    IF u \in DOMAIN d THEN RemoveIfExists(files, d[u].file_path) ELSE files

\* The failure message is out: the except clause cleans up and returns END.
RollnoFailed(t) ==
    /\ t.pc = "send_failure"
    /\ disk' = SessionCleanUp(disk, user_data, t.user)
    /\ user_data' = Del(user_data, t.user)
    /\ Complete(t, "END")
    /\ UNCHANGED fnVars

----------------------------------------------------------------------------
(* cancel *)

\* A /cancel arrives in a conversation: the session's source file and the session
\* go, then the message is awaited.
CancelUpdate(u) ==
    /\ IF Route(conversations[u], "cancel") = "cancel"
       THEN /\ CanStart
            /\ disk' = SessionCleanUp(disk, user_data, u)
            /\ user_data' = Del(user_data, u)
            /\ tasks' = Started([NewTask(u, "cancel", "send_cancelled")
                                   EXCEPT !.msgs = <<MsgCancelled>>])
            /\ UNCHANGED conversations
       ELSE Unrouted(u, "cancel")
    /\ UNCHANGED fnVars

CancelReturn(t) ==
    /\ t.pc = "send_cancelled"
    /\ Complete(t, "END")
    /\ UNCHANGED <<user_data, disk>>
    /\ UNCHANGED fnVars

----------------------------------------------------------------------------
(* Text updates and the specification of the bot *)

\* What the user types: a name when asked for one, a roll number when asked for
\* one, anything otherwise.
InputTexts(state) ==
    CASE state = "WAITING_FOR_NAME" -> NameTexts
      [] state = "WAITING_FOR_ROLLNO" -> RollTexts
      [] OTHER -> Texts

TextUpdate(u, text) ==
    /\ CASE Route(conversations[u], "text") = "handle_name" -> HandleName(u, text)
         [] Route(conversations[u], "text") = "handle_rollno" -> HandleRollno(u, text)
         [] OTHER -> Unrouted(u, "text")
    /\ UNCHANGED fnVars

Faults == {"none", "load", "inject", "save"}

InitBot ==
    /\ conversations = [u \in Users |-> "Idle"]
    /\ user_data = EmptyDict
    /\ disk = {}
    /\ tasks = EmptyBag

\* No exception has reached error_handler.
NoError == [error |-> "none", update |-> "none", transport |-> "ok"]

NotCalled == [log |-> <<>>, coroutines |-> <<>>, raised |-> FALSE]

\* The process is up: main() is in application.run_polling(), no signal came.
Up == [pc |-> "up", by |-> "none", app |-> "running", log |-> <<>>]

InitFns ==
    /\ sendIn = <<>>
    /\ sendOut = NoCall
    /\ docIn = NoDoc
    /\ docOut = <<>>
    /\ down = Up
    /\ errIn = NoError
    /\ errOut = NotCalled

Init == InitBot /\ InitFns

Next ==
    \/ \E u \in Users : StartUpdate(u)
    \/ \E u \in Users, file_name \in FileNames : DocumentUpdate(u, file_name)
    \/ \E u \in Users : \E text \in InputTexts(conversations[u]) : TextUpdate(u, text)
    \/ \E u \in Users : CancelUpdate(u)
    \/ \E t \in Running, ok \in BOOLEAN : DocumentDownloaded(t, ok)
    \/ \E t \in Running : DocumentReturn(t)
    \/ \E t \in Running : NameReturn(t)
    \/ \E t \in Running, fault \in Faults : RollnoProcess(t, fault)
    \/ \E t \in Running, returncode \in {0, 1} : ConvertDone(t, returncode)
    \/ \E t \in Running, ok \in BOOLEAN : DeliverDone(t, ok)
    \/ \E t \in Running : RollnoReturn(t)
    \/ \E t \in Running : RollnoFailed(t)
    \/ \E t \in Running : CancelReturn(t)

Spec == Init /\ [][Next]_vars

----------------------------------------------------------------------------
(* send_message_with_retry and process_docx on their own *)

InitSend ==
    /\ InitBot
    /\ sendIn \in OutcomeSeqs
    /\ sendOut = NoCall
    /\ docIn = NoDoc
    /\ docOut = <<>>
    /\ down = Up
    /\ errIn = NoError
    /\ errOut = NotCalled

\* One call with the default max_retries, as every caller makes it.
CallSend ==
    /\ sendOut = NoCall
    /\ sendOut' = send_message_with_retry(sendIn, MAX_RETRIES)
    /\ UNCHANGED <<sendIn, docIn, docOut, down, errIn, errOut>>
    /\ UNCHANGED botVars

SpecSend == InitSend /\ [][CallSend]_vars

\* The names and roll numbers that reach process_docx: stripped and not empty.
Names == {strip(x) : x \in NameTexts} \ {<<>>}

RollNos == {strip(x) : x \in RollTexts} \ {<<>>}

InitDocx ==
    /\ InitBot
    /\ sendIn = <<>>
    /\ sendOut = NoCall
    /\ docIn \in [sections : Documents, name : Names, roll_no : RollNos]
    /\ docOut = <<>>
    /\ down = Up
    /\ errIn = NoError
    /\ errOut = NotCalled

CallProcessDocx ==
    /\ docOut = <<>>
    /\ docOut' = InjectAll(docIn.sections, docIn.name, docIn.roll_no)
    /\ UNCHANGED <<sendIn, sendOut, docIn, down, errIn, errOut>>
    /\ UNCHANGED botVars

SpecDocx == InitDocx /\ [][CallProcessDocx]_vars

----------------------------------------------------------------------------
(* The clean up of handle_rollno when os.remove can fail *)

\* os.remove(path) raises (PermissionError, ...): the exception names the path
RemoveError(path) == <<"PermissionError: ">> \o path

\* The removals of "# Clean up" in their order, none of them guarded: the call
\* of os.remove on `locked` raises and the removals after it are not reached.
RECURSIVE RemoveUntil(_, _, _)
RemoveUntil(files, paths, locked) ==
    IF paths = <<>> \/ (Head(paths) = locked /\ locked \in files)
    THEN files
    ELSE RemoveUntil(RemoveIfExists(files, Head(paths)), Tail(paths), locked)

\* reply_document has delivered the file and one of the three os.remove calls
\* of the success path raises: the except clause takes over.
DeliverDoneLocked(t, locked) ==
    LET t1 == [t EXCEPT !.sent = basename(t.pdf_output_path),
                         !.steps = Append(t.steps, "cleanup")]
    IN  /\ t.pc = "delivering"
        /\ locked \in {t.file_path, t.docx_output_path, t.pdf_output_path} \cap disk
        /\ disk' = RemoveUntil(disk, <<t.file_path, t.docx_output_path,
                                       t.pdf_output_path>>, locked)
        /\ tasks' = Resumed(t, Except(t1, RemoveError(locked)))
        /\ UNCHANGED <<conversations, user_data>>
        /\ UNCHANGED fnVars

\* The failure message is out and the os.remove of the except clause raises:
\* the exception leaves handle_rollno, the session stays in user_data and
\* ConversationHandler keeps the conversation's state.
RollnoFailedLocked(t) ==
    /\ t.pc = "send_failure"
    /\ t.user \in DOMAIN user_data
    /\ user_data[t.user].file_path \in disk
    /\ tasks' = Removed(t)
    /\ UNCHANGED <<conversations, user_data, disk>>
    /\ UNCHANGED fnVars

NextRemove ==
    \/ Next
    \/ \E t \in Running :
          \E locked \in {t.file_path, t.docx_output_path, t.pdf_output_path} :
              DeliverDoneLocked(t, locked)
    \/ \E t \in Running : RollnoFailedLocked(t)

SpecRemove == Init /\ [][NextRemove]_vars

----------------------------------------------------------------------------
(* Shutdown: signal_handler, cleanup and the finally clause of the script *)

\* file.endswith(suffix)
EndsWith(s, suffix) ==
    Len(s) >= Len(suffix) /\ SubSeq(s, Len(s) - Len(suffix) + 1, Len(s)) = suffix

\* file.endswith(('.docx', '.pdf')) and not file == 'requirements.txt'
Transient_file(file) ==
    /\ EndsWith(file, <<".", "docx">>) \/ EndsWith(file, <<".", "pdf">>)
    /\ file # <<"requirements", ".", "txt">>

\* What os.listdir() may hold when the process goes down.
SweepFiles ==
    {<<"bob", "_", "r", ".", "docx">>, <<"bob", "_", "r", ".", "DOCX">>,
     <<"A", "_", "7", ".", "docx">>, <<"A", "_", "7", ".", "pdf">>,
     <<"requirements", ".", "txt">>}

Logged(d, ev) == Append(d.log, ev)

\* The library ends run_polling (stop signal taken by the library, or an
\* error): it stops a running application before run_polling is left.
Stopped(app) == IF app = "running" THEN "stopped" ELSE app

\* signal_handler: asyncio.create_task(cleanup()); sys.exit(0)
signal_handler ==
    /\ down.pc = "up"
    /\ down' = [down EXCEPT !.pc = "cleanup", !.by = "task",
                            !.log = Logged(down, "signal")]
    /\ UNCHANGED <<sendIn, sendOut, docIn, docOut, errIn, errOut>>
    /\ UNCHANGED botVars

\* sys.exit(0) unwinds main() wherever the task created by signal_handler is,
\* or run_polling is left without that handler having run; the finally clause
\* of the script then runs asyncio.run(cleanup()).
MainExit ==
    /\ \/ down.pc = "up"
       \/ down.by = "task" /\ down.pc \in {"cleanup", "shutdown", "sweep", "done"}
    /\ down' = [down EXCEPT !.pc = "cleanup", !.by = "run", !.app = Stopped(down.app),
                            !.log = Logged(down, "exit")]
    /\ UNCHANGED <<sendIn, sendOut, docIn, docOut, errIn, errOut>>
    /\ UNCHANGED botVars

\* cleanup: if application: await application.stop().  stop() raises when the
\* application is not running (or for a reason of its own: ~ok), and the outer
\* except of cleanup ends it there.
CleanupStop(ok) ==
    /\ down.pc = "cleanup"
    /\ down' =
          IF down.app = "None" THEN [down EXCEPT !.pc = "sweep"]
          ELSE IF down.app = "running" /\ ok
          THEN [down EXCEPT !.pc = "shutdown", !.app = "stopped",
                            !.log = Logged(down, "stop")]
          ELSE [down EXCEPT !.pc = "done", !.log = Logged(down, "stop raised")]
    /\ UNCHANGED <<sendIn, sendOut, docIn, docOut, errIn, errOut>>
    /\ UNCHANGED botVars

\* cleanup: await application.shutdown(), which releases the connection
CleanupShutdown(ok) ==
    /\ down.pc = "shutdown"
    /\ down' =
          IF ok THEN [down EXCEPT !.pc = "sweep", !.app = "shutdown",
                                  !.log = Logged(down, "shutdown")]
          ELSE [down EXCEPT !.pc = "done", !.log = Logged(down, "shutdown raised")]
    /\ UNCHANGED <<sendIn, sendOut, docIn, docOut, errIn, errOut>>
    /\ UNCHANGED botVars

\* cleanup: for file in os.listdir(): ... os.remove(file), each in its own try;
\* the files of `locked` are those whose os.remove raises.
Sweep(locked) ==
    /\ down.pc = "sweep"
    /\ disk' = {file \in disk : ~Transient_file(file) \/ file \in locked}
    /\ down' = [down EXCEPT !.pc = "done", !.log = Logged(down, "sweep")]
    /\ UNCHANGED <<conversations, user_data, tasks>>
    /\ UNCHANGED <<sendIn, sendOut, docIn, docOut, errIn, errOut>>

\* asyncio.run(cleanup()) of the finally clause has returned: the process ends.
ProcessEnd ==
    /\ down.pc = "done" /\ down.by = "run"
    /\ down' = [down EXCEPT !.pc = "exited"]
    /\ UNCHANGED <<sendIn, sendOut, docIn, docOut, errIn, errOut>>
    /\ UNCHANGED botVars

InitShutdown ==
    /\ conversations = [u \in Users |-> "Idle"]
    /\ user_data = EmptyDict
    /\ tasks = EmptyBag
    /\ disk \in SUBSET SweepFiles
    /\ sendIn = <<>>
    /\ sendOut = NoCall
    /\ docIn = NoDoc
    /\ docOut = <<>>
    /\ down \in {[Up EXCEPT !.app = a] : a \in {"None", "running"}}
    /\ errIn = NoError
    /\ errOut = NotCalled

NextShutdown ==
    \/ signal_handler
    \/ MainExit
    \/ \E ok \in BOOLEAN : CleanupStop(ok)
    \/ \E ok \in BOOLEAN : CleanupShutdown(ok)
    \/ \E locked \in SUBSET disk : Sweep(locked)
    \/ ProcessEnd

SpecShutdown == InitShutdown /\ [][NextShutdown]_vars

----------------------------------------------------------------------------
(* Two users at the same time *)

\* update.effective_user.id of the two users: the first has a username, the
\* second has none and is identified by str(user.id)
TwoUsers == {1, 2}

\* What each of them sends: the same document name, and texts that become a
\* name or a roll number according to the state of their conversation.
TwoUsersTexts == {<<" ", "A", " ">>, <<"7">>}

InitTwoUsers ==
    /\ conversations = [u \in TwoUsers |-> "Idle"]
    /\ user_data = EmptyDict
    /\ disk = {}
    /\ tasks = EmptyBag
    /\ InitFns

NextTwoUsers ==
    \/ \E u \in TwoUsers : DocumentUpdate(u, <<"r", ".", "docx">>)
    \/ \E u \in TwoUsers, text \in TwoUsersTexts :
          conversations[u] \in {"WAITING_FOR_NAME", "WAITING_FOR_ROLLNO"}
             /\ TextUpdate(u, text)
    \/ \E t \in Running : DocumentDownloaded(t, TRUE)
    \/ \E t \in Running : DocumentReturn(t)
    \/ \E t \in Running : NameReturn(t)
    \/ \E t \in Running : RollnoProcess(t, "none")
    \/ \E t \in Running : ConvertDone(t, 0)
    \/ \E t \in Running : DeliverDone(t, TRUE)
    \/ \E t \in Running : RollnoReturn(t)
    \/ \E t \in Running : RollnoFailed(t)

SpecTwoUsers == InitTwoUsers /\ [][NextTwoUsers]_vars

----------------------------------------------------------------------------
(* error_handler *)

\* The classes of context.error: the library's Conflict, TimedOut, NetworkError
\* and RetryAfter, and exceptions of the handlers themselves.
Errors == {"Conflict", "TimedOut", "NetworkError", "RetryAfter", "KeyError",
           "PermissionError"}

\* isinstance(error, cls): TimedOut is a NetworkError, every class is itself
IsInstance(error, cls) ==
    error = cls \/ (error = "TimedOut" /\ cls = "NetworkError")

\* The update handed to error_handler: None, an update without a message, or a
\* message of one of the users.
ErrorUpdates == {"None", "no message"} \cup {ToString(u) : u \in TwoUsers}

\* update and isinstance(update, Update) and update.effective_message
HasEffectiveMessage(update) == update \notin {"None", "no message"}

\* what the transport would answer to a reply_text that is awaited
ErrorTransport == {"ok", "TimedOut", "NetworkError", "Other"}

MsgError == <<"An error occurred while processing your request. Please try again.">>

\* logger.error(f"Exception while handling an update: {context.error}")
LogException(error) == <<"Exception while handling an update: ", error>>

LogConflict == <<"Bot instance conflict detected. Please ensure only one instance is running.">>

LogNetwork(error) == <<"Network error occurred: ", error>>

\* update.effective_message.reply_text(error_message) in a plain def, without
\* await: the call only creates the coroutine object; nothing awaits it.
ReplyTextCall(update, text) == [to |-> update, text |-> text, awaited |-> FALSE]

\* error_handler(update, context)
error_handler(update, error) ==
    LET log == <<LogException(error)>>
    IN  IF IsInstance(error, "Conflict")
        THEN [log |-> Append(log, LogConflict), coroutines |-> <<>>, raised |-> FALSE]
        ELSE IF IsInstance(error, "TimedOut") \/ IsInstance(error, "NetworkError")
        THEN [log |-> Append(log, LogNetwork(error)), coroutines |-> <<>>,
              raised |-> FALSE]
        ELSE IF HasEffectiveMessage(update)
        THEN [log |-> log, coroutines |-> <<ReplyTextCall(update, MsgError)>>,
              raised |-> FALSE]
        ELSE [log |-> log, coroutines |-> <<>>, raised |-> FALSE]

\* The messages that go out to the transport: those of the coroutines that are
\* awaited, when the transport takes them.
SentBy(out, transport) ==
    SelectSeq(out.coroutines, LAMBDA c : c.awaited /\ transport = "ok")

InitError ==
    /\ InitBot
    /\ sendIn = <<>>
    /\ sendOut = NoCall
    /\ docIn = NoDoc
    /\ docOut = <<>>
    /\ down = Up
    /\ errIn \in [error : Errors, update : ErrorUpdates, transport : ErrorTransport]
    /\ errOut = NotCalled

CallErrorHandler ==
    /\ errOut = NotCalled
    /\ errOut' = error_handler(errIn.update, errIn.error)
    /\ UNCHANGED <<sendIn, sendOut, docIn, docOut, down, errIn>>
    /\ UNCHANGED botVars

SpecError == InitError /\ [][CallErrorHandler]_vars

----------------------------------------------------------------------------
(* Claims *)

Waiting == {"WAITING_FOR_NAME", "WAITING_FOR_ROLLNO"}

Closed == {"Idle", "END"}

HasName(d, u) == u \in DOMAIN d /\ "name" \in DOMAIN d[u]

\* a coroutine with locals t is in flight after the step and was not before it
Begun(t) == CopiesIn(t, tasks') > CopiesIn(t, tasks)

\* a coroutine with locals t was in flight before the step and is gone after it
Ended(t) == CopiesIn(t, tasks') < CopiesIn(t, tasks)

\* the step stores a name in u's session
NameStored(u) ==
    /\ HasName(user_data', u)
    /\ ~HasName(user_data, u) \/ user_data'[u].name # user_data[u].name

\* the step takes a text of u as the roll number: the pipeline's coroutine starts
RollTaken(u) ==
    \E t \in BagToSet(tasks') :
        t.user = u /\ t.handler = "handle_rollno" /\ t.pc = "send_processing" /\ Begun(t)

\* C1: a text is stored as the name only when the user's conversation state is
\* WAITING_FOR_NAME, it is taken as the roll number (the pipeline starts) only
\* when the state is WAITING_FOR_ROLLNO, and a text received while the
\* conversation is Idle or ended changes nothing of the session store, the
\* disk or the coroutines.
C1_TextByState ==
    [][\A u \in Users :
          /\ NameStored(u) => conversations[u] = "WAITING_FOR_NAME"
          /\ RollTaken(u) => conversations[u] = "WAITING_FOR_ROLLNO"
          /\ (conversations[u] \in Closed /\ \E text \in Texts : TextUpdate(u, text))
                => UNCHANGED botVars]_vars

\* both cases of C1 have happened: a name is stored and a roll number was taken
C1_Witness ==
    \E t \in Running :
        /\ t.handler = "handle_rollno" /\ t.pc = "send_processing"
        /\ HasName(user_data, t.user)
        /\ conversations[t.user] = "WAITING_FOR_ROLLNO"

\* the files a pipeline coroutine has recorded or produced
ArtifactsOf(t) ==
    {t.file_path, t.docx_output_path, t.pdf_output_path,
     ConverterOutput(t.docx_output_path)} \ {<<>>, <<".", "pdf">>}

\* C2: when a session reaches the end of its conversation, by the pipeline's
\* success, by one of its errors or by cancel, none of the files produced for it
\* is on disk: not the source, not the .docx derivative, not the .pdf output.
C2_NoArtifactAfterTerminal ==
    [][/\ \A t \in Running :
             (t.handler = "handle_rollno" /\ Ended(t) /\ conversations'[t.user] = "END")
                => ArtifactsOf(t) \cap disk' = {}
       /\ \A u \in Users :
             (conversations[u] \in Waiting /\ CancelUpdate(u) /\ u \in DOMAIN user_data)
                => user_data[u].file_path \notin disk']_vars

\* C3: a cancel in WAITING_FOR_NAME or WAITING_FOR_ROLLNO removes the session
\* and its source file, the conversation ends when cancel returns, and from
\* then on (session gone, conversation ended) a text of the user is routed to
\* handle_name or handle_rollno again only after handle_document has returned
\* for a newly accepted document.
C3_CancelCloses ==
    [][/\ \A u \in Users :
             (conversations[u] \in Waiting /\ CancelUpdate(u) /\ u \in DOMAIN user_data)
                => /\ u \notin DOMAIN user_data'
                   /\ user_data[u].file_path \notin disk'
       /\ \A t \in Running :
             (t.handler = "cancel" /\ Ended(t)) => conversations'[t.user] = "END"
       /\ \A u \in Users :
             (/\ conversations[u] = "END"
              /\ u \notin DOMAIN user_data
              /\ conversations'[u] \in Waiting)
                => \E t \in Running :
                      /\ t.user = u /\ t.handler = "handle_document"
                      /\ t.pc = "send_ask_name" /\ Ended(t)]_vars

\* the environment made no step of the coroutine's pipeline run fail: the
\* document loaded, the footer went in, the derivative was saved, the converter
\* exited with status 0 and the transport delivered the file
NoStepFailed(t) ==
    /\ t.handler = "handle_rollno"
    /\ "convert" \in {t.steps[i] : i \in 1..Len(t.steps)}
    /\ t.pc \notin {"converting", "delivering"}
    /\ t.exc \notin {ConversionError, DeliveryError}

\* C4: an accepted .docx, then a name, then a roll number, with no step failing:
\* the user is sent the file {name}_{roll_no}.pdf, the handler returns END, the
\* session is removed, and neither the source file nor a {name}_{roll_no}.*
\* file is left.
C4_EndToEnd ==
    \A t \in Running :
        NoStepFailed(t) =>
            /\ t.pc = "send_success"
            /\ t.sent = Underscore(t.name, t.text) \o <<".", "pdf">>
            /\ t.user \notin DOMAIN user_data
            /\ disk \cap {t.file_path,
                          Underscore(t.name, t.text) \o <<".", "docx">>,
                          Underscore(t.name, t.text) \o <<".", "pdf">>} = {}

Transient == {"TimedOut", "NetworkError"}

AllTransient == \A i \in 1..Len(sendIn) : sendIn[i].kind \in Transient

\* the attempts a call made
Attempts(out) == {i \in 1..Len(out.log) : out.log[i].ev = "attempt"}

\* C5: when every attempt fails with TimedOut or NetworkError, the call makes
\* exactly MAX_RETRIES attempts, sleeps RETRY_DELAY between two consecutive
\* attempts (and not after the last), and returns False.
C5_TransientExhausts ==
    (sendOut # NoCall /\ AllTransient) =>
        /\ sendOut.ret = FALSE
        /\ Cardinality(Attempts(sendOut)) = MAX_RETRIES
        /\ Len(sendOut.log) = 2 * MAX_RETRIES - 1
        /\ \A i \in 1..Len(sendOut.log) :
              sendOut.log[i] = IF i % 2 = 1 THEN Attempt((i - 1) \div 2)
                                            ELSE Sleep(RETRY_DELAY)

\* a call whose attempts all failed with a transient error has returned
C5_Witness == sendOut # NoCall /\ AllTransient

\* the first answer of the transport that is no rate-limit signal (0: none)
FirstOther ==
    LET others == {i \in 1..Len(sendIn) : sendIn[i].kind # "RetryAfter"}
    IN  IF others = {} THEN 0 ELSE CHOOSE i \in others : \A j \in others : i <= j

\* C6: a rate-limit signal with wait W makes the call sleep W before the next
\* attempt, and consumes no attempt: after any number of rate-limit signals the
\* call goes on until the transport succeeds or reports another error, so a
\* success that follows rate-limit signals only is reached and returns True.
C6_RateLimitFree ==
    sendOut # NoCall =>
        /\ \A i \in Attempts(sendOut) :
              LET e == sendIn[sendOut.log[i].arg + 1]
              IN  e.kind = "RetryAfter" =>
                     /\ i < Len(sendOut.log)
                     /\ sendOut.log[i + 1] = Sleep(e.retry_after)
        /\ (FirstOther # 0 /\ sendIn[FirstOther].kind = "ok") => sendOut.ret = TRUE

\* a document whose extension, lower-cased, is not in SUPPORTED_EXTENSIONS
Rejected(t) ==
    t.handler = "handle_document" /\ FileExt(t.file_name) \notin SUPPORTED_EXTENSIONS

\* C7: a document whose extension is not .docx (compared case-insensitively)
\* is rejected: its handler only sends the "unsupported" message, downloads
\* nothing, leaves user_data and the disk as they are and returns END.
C7_UnsupportedRejected ==
    [][\A t \in BagToSet(tasks) \cup BagToSet(tasks') :
          Rejected(t) =>
             /\ t.pc = "send_unsupported"
             /\ t.msgs = <<MsgUnsupported>>
             /\ (Begun(t) \/ Ended(t)) => UNCHANGED <<user_data, disk>>
             /\ Ended(t) => conversations'[t.user] = "END"]_vars

\* a document with another extension is being rejected
C7_Witness ==
    \E t \in Running :
        t.pc = "send_unsupported" /\ t.file_name = <<"r", ".", "txt">> /\ disk = {}

\* C8: after footer injection every section's footer holds exactly one item, the
\* three-cell table "Name: {name}", "Roll No: {roll_no}", "Page no:" followed
\* by a PAGE field, and nothing of the footer it had before.
C8_FooterReset ==
    docOut # <<>> =>
        /\ Len(docOut) = Len(docIn.sections)
        /\ \A i \in 1..Len(docOut) :
              /\ Len(docOut[i]) = 1
              /\ docOut[i][1].kind = "tbl"
              /\ docOut[i][1].cells =
                    << <<Run(<<"Name: ">> \o docIn.name, "")>>,
                       <<Run(<<"Roll No: ">> \o docIn.roll_no, "")>>,
                       <<Run(<<"Page no:">>, ""), Run(<<>>, "PAGE")>> >>

\* the step replaces u's session by the one of a newly downloaded document
Overwritten(u) ==
    /\ u \in DOMAIN user_data /\ u \in DOMAIN user_data'
    /\ \E t \in Running :
          t.user = u /\ t.pc = "download" /\ Ended(t) /\ disk' = disk \cup {t.file_path}

\* C9: at every step at which a session leaves the store, deleted by
\* handle_rollno or cancel or overwritten by handle_document, the source file
\* it recorded is no longer on disk (a session that replaces it and records the
\* very same path is not counted as leaving the file behind).
C9_SourceGoneWithSession ==
    [][\A u \in Users :
          /\ (u \in DOMAIN user_data /\ u \notin DOMAIN user_data')
                => user_data[u].file_path \notin disk'
          /\ Overwritten(u)
                => \/ user_data[u].file_path \notin disk'
                   \/ user_data'[u].file_path = user_data[u].file_path]_vars

\* the pipeline of t failed at loading, footer injection, saving or conversion
PipelineFault(t) ==
    t.handler = "handle_rollno"
        /\ t.exc \in {LoadError, InjectError, SaveError, ConversionError}

\* the steps of a pipeline that stopped with the given exception
StepsUpTo(exc) ==
    CASE exc = LoadError -> <<"load">>
      [] exc = InjectError -> <<"load", "inject">>
      [] exc = SaveError -> <<"load", "inject", "save">>
      [] OTHER -> <<"load", "inject", "save", "convert">>

Atoms(str) == {str[i] : i \in 1..Len(str)}

OtherErrors(out) ==
    {i \in Attempts(out) : sendIn[out.log[i].arg + 1].kind = "Other"}

\* C11: no exception leaves send_message_with_retry: whatever the transport
\* answers, the call returns True or False; and an error that is neither
\* TimedOut/NetworkError nor RetryAfter ends it at once with False: that
\* attempt is the last thing the call does, no sleep and no attempt follow.
C11_NeverRaises ==
    sendOut # NoCall =>
        /\ sendOut.raised = FALSE
        /\ sendOut.ret \in BOOLEAN
        /\ \A i \in OtherErrors(sendOut) :
              i = Len(sendOut.log) /\ sendOut.ret = FALSE

\* a call that was retried once and then met an error of another class
C11_Witness ==
    /\ sendOut # NoCall
    /\ sendIn[1].kind = "TimedOut" /\ sendIn[2].kind = "Other"
    /\ sendOut.log = <<Attempt(0), Sleep(RETRY_DELAY), Attempt(1)>>

\* how many times step x is in the steps a coroutine ran
Count(steps, x) == Cardinality({i \in 1..Len(steps) : steps[i] = x})

\* C12: the delivery of the converted file is retried like a message: when
\* reply_document fails with a transient network error the delivery has been
\* attempted MAX_RETRIES times before it counts as failed; the failure is then
\* reported with the failure message, and footer injection and conversion have
\* run once only.
C12_DeliveryRetried ==
    \A t \in Running :
        (t.handler = "handle_rollno" /\ t.exc = DeliveryError) =>
            /\ Count(t.steps, "deliver") = MAX_RETRIES
            /\ t.msgs = <<MsgProcessing, MsgFailure>>
            /\ Count(t.steps, "inject") = 1
            /\ Count(t.steps, "convert") = 1

\* the path whose removal failed in the clean up of t (<<>>: none did)
LockedOf(t) ==
    IF t.exc # <<>> /\ Head(t.exc) = "PermissionError: " THEN Tail(t.exc) ELSE <<>>

\* C13: after a pipeline run the clean up goes through the source file, the
\* derivative and the converted output, and a removal that fails stops neither
\* the other removals nor the removal of the session: when handle_rollno ends
\* after one os.remove failed, the session is out of user_data and of the three
\* files only the one that could not be removed is still on disk.
C13_CleanupTolerant ==
    [][\A t \in Running :
          (t.handler = "handle_rollno" /\ LockedOf(t) # <<>> /\ Ended(t)) =>
             /\ t.user \notin DOMAIN user_data'
             /\ disk' \cap {t.file_path, t.docx_output_path, t.pdf_output_path}
                    \subseteq {LockedOf(t)}]_vars

\* the positions of an event in the shutdown's log
At(ev) == {i \in 1..Len(down.log) : down.log[i] = ev}

\* C14: on shutdown the application stops taking events, then the transient
\* files are swept, and only after the sweep the connection is released
\* (application.shutdown()); and a process that ends after a shutdown signal
\* has run the sweep.
C14_ShutdownOrder ==
    /\ \A i \in At("shutdown") : \E j \in At("sweep") : j < i
    /\ \A j \in At("sweep") :
          down.app # "None" => \E i \in At("stop") : i < j
    /\ (down.pc = "exited" /\ At("signal") # {}) => At("sweep") # {}

\* the handler coroutines of user u in flight in bag b
InFlight(u, b) == {t \in BagToSet(b) : t.user = u}

\* how many they are
NumInFlight(u, b) == BagCardinality([t \in InFlight(u, b) |-> CopiesIn(t, b)])

\* the step reads or writes the session entry of u
SessionTouched(u) ==
    \/ (u \in DOMAIN user_data) # (u \in DOMAIN user_data')
    \/ u \in DOMAIN user_data /\ u \in DOMAIN user_data' /\ user_data'[u] # user_data[u]
    \/ \E t \in InFlight(u, tasks) : t.pc = "send_processing" /\ Ended(t)

\* the pipeline of a roll number is being processed
Processing(t) ==
    t.handler = "handle_rollno" /\ t.pc \in {"send_processing", "converting", "delivering"}

\* C15: the events of one user are handled one after the other: a step that
\* reads or writes the user's session entry is taken while no other handler
\* coroutine of that user is in flight, and while a pipeline is processing no
\* cancel and no second handle_rollno of that user is in flight with it.
C15_SameUserInOrder ==
    [][\A u \in Users :
          /\ SessionTouched(u) =>
                NumInFlight(u, tasks) <= 1 /\ NumInFlight(u, tasks') <= 1
          /\ \A t \in InFlight(u, tasks') :
                Processing(t) =>
                   /\ CopiesIn(t, tasks') = 1
                   /\ \A t2 \in InFlight(u, tasks') \ {t} :
                         t2.handler \notin {"cancel", "handle_rollno"}]_vars

\* the transient file paths of the session of u: the source recorded in
\* user_data and the paths held by the handler coroutines of u
PathsOf(u) ==
    ((IF u \in DOMAIN user_data THEN {user_data[u].file_path} ELSE {})
        \cup UNION {{t.file_path, t.docx_output_path, t.pdf_output_path} :
                       t \in InFlight(u, tasks)}) \ {<<>>}

\* C16: whatever two distinct users submit, no source, derivative or output
\* path of the session of one is a path of the session of the other.
C16_PathsDisjoint ==
    \A u1 \in TwoUsers, u2 \in TwoUsers :
        u1 # u2 => PathsOf(u1) \cap PathsOf(u2) = {}

\* the coroutine handles a text that is empty after strip()
Blank(t) ==
    \/ t.handler = "handle_name" /\ t.pc = "send_bad_name"
    \/ t.handler = "handle_rollno" /\ t.pc = "send_bad_roll"

\* C17: a text that is empty after strip(), received in WAITING_FOR_NAME or
\* WAITING_FOR_ROLLNO, only sends the re-prompt: neither the start nor the
\* return of its handler changes the conversation state, user_data or the disk;
\* and a text that is not empty after strip(), received in WAITING_FOR_NAME,
\* stores the name, and the return of its handler makes the state
\* WAITING_FOR_ROLLNO.
C17_BlankTextFrame ==
    [][/\ \A t \in BagToSet(tasks) \cup BagToSet(tasks') :
             (Blank(t) /\ (Begun(t) \/ Ended(t))) =>
                /\ t.msgs \in {<<MsgBadName>>, <<MsgBadRoll>>}
                /\ UNCHANGED <<conversations, user_data, disk>>
       /\ \A t \in BagToSet(tasks) \cup BagToSet(tasks') :
             (t.handler = "handle_name" /\ t.pc = "send_ask_roll") =>
                /\ Begun(t) => /\ conversations[t.user] = "WAITING_FOR_NAME"
                               /\ HasName(user_data', t.user)
                               /\ user_data'[t.user].name = t.text
                /\ Ended(t) => conversations'[t.user] = "WAITING_FOR_ROLLNO"]_vars

\* C18: for every exception that reaches error_handler: a Conflict is only
\* logged and nothing is sent; an exception that is neither a Conflict nor a
\* TimedOut/NetworkError is logged and the generic error message is sent to the
\* user of the update (when the update has a message to reply to and the
\* transport takes it); and error_handler does not raise.
C18_ErrorHandler ==
    errOut # NotCalled =>
        /\ errOut.raised = FALSE
        /\ errOut.log # <<>>
        /\ errIn.error = "Conflict" =>
              errOut.coroutines = <<>> /\ Len(errOut.log) = 2
        /\ (/\ errIn.error \notin {"Conflict", "TimedOut", "NetworkError"}
            /\ HasEffectiveMessage(errIn.update)
            /\ errIn.transport = "ok") =>
              \E i \in 1..Len(SentBy(errOut, errIn.transport)) :
                  /\ SentBy(errOut, errIn.transport)[i].to = errIn.update
                  /\ SentBy(errOut, errIn.transport)[i].text = MsgError

\* C19: a user whose conversation is in WAITING_FOR_NAME or WAITING_FOR_ROLLNO
\* has a session in user_data with a source file path, and in
\* WAITING_FOR_ROLLNO the session has a non-empty name: no lookup of
\* handle_name or handle_rollno can miss.
C19_SessionInvariant ==
    \A u \in Users :
        /\ conversations[u] \in Waiting =>
              u \in DOMAIN user_data /\ user_data[u].file_path # <<>>
        /\ conversations[u] = "WAITING_FOR_ROLLNO" =>
              HasName(user_data, u) /\ user_data[u].name # <<>>

\* how many of the messages a coroutine has sent are the text msg
Times(msgs, msg) == Cardinality({i \in 1..Len(msgs) : msgs[i] = msg})

\* C20: a pipeline run sends at most one of the two final messages; it sends
\* the success message only once the converted file is delivered and the
\* session is out of user_data; and it never sends the failure message after
\* it has delivered the converted file.
C20_OneFinalMessage ==
    [][\A t \in BagToSet(tasks') :
          (t.handler = "handle_rollno" /\ Begun(t)) =>
             /\ Times(t.msgs, MsgSuccess) + Times(t.msgs, MsgFailure) <= 1
             /\ Times(t.msgs, MsgSuccess) = 1 =>
                   t.sent # <<>> /\ t.user \notin DOMAIN user_data'
             /\ t.sent # <<>> => Times(t.msgs, MsgFailure) = 0]_vars

====
